---- MODULE Spec2Model ----
(***************************************************************************)
(* Model of the Lighthouse worker (src/index.js).  The file holds two      *)
(* variants of the same program:                                           *)
(*   "inproc"  (lines 1-283)   the engine runs in-process behind a chrome  *)
(*                             instance started by chrome-launcher;        *)
(*   "subproc" (lines 285-601) the engine runs as a `lighthouse` child     *)
(*                             process and the report is read from disk.   *)
(* Every await of the code is one action; several batches (one per cron    *)
(* trigger) interleave at those points, as promises do on the event loop.  *)
(***************************************************************************)
EXTENDS Integers, Sequences, FiniteSets, TLC

(***************************************************************************)
(* Bounds of the model.                                                    *)
(***************************************************************************)
MaxUrls == 2        \* longest TARGET_URL list
MaxBatches == 2     \* cron triggers followed in service mode
MaxTime == 1        \* clock instants after the first one
MaxFaults == 1      \* disturbances of one run: external calls that fail or
                    \* return an unusual result, and clock ticks
MaxStorm == 6       \* disturbances of one run over a single URL
MaxCalls == 2       \* repeated calls of hashStringTo12Digits on one input

(***************************************************************************)
(* Configuration values.                                                   *)
(***************************************************************************)
Variants == {"inproc", "subproc"}
URLS == {"https://example1.com", "https://example2.com"}
Devices == <<"desktop", "mobile">>
Categories == <<"performance", "accessibility", "best-practices", "seo", "pwa">>
HOST == "https://host"
UserAgent == "HeadlessChrome"
ChromePorts == {9222}
NoPort == 0           \* the profile objects have no port property at start
Undefined == "undefined"
NA == "N/A"

UrlLists == UNION {[1..n -> URLS] : n \in 1..MaxUrls}

(***************************************************************************)
(* The clock.  Instant t stands for 2024-05-01T23:59:59.999Z plus t ms, so *)
(* that instants 0 and 1 lie on different days.                            *)
(***************************************************************************)
Times == 0..MaxTime

Digit == <<"0", "1", "2", "3", "4", "5", "6", "7", "8", "9">>

Pad3(n) == Digit[((n \div 100) % 10) + 1] \o Digit[((n \div 10) % 10) + 1] \o Digit[(n % 10) + 1]

\* Date.prototype.toISOString
toISOString(t) ==
  IF t = 0 THEN "2024-05-01T23:59:59.999Z"
  ELSE "2024-05-02T00:00:00." \o Pad3(t - 1) \o "Z"

\* Date.prototype.getTime, as interpolated into a template string
getTime(t) ==
  IF t = 0 THEN "1714607999999"
  ELSE "1714608000" \o Pad3(t - 1)

\* date-fns format(d, "yyyy-MM-dd"), with the process running in UTC
format(t) ==
  IF t = 0 THEN "2024-05-01" ELSE "2024-05-02"

(***************************************************************************)
(* hashStringTo12Digits.  The SHA-256 digests of the modelled URLs are     *)
(* tabulated as 16-bit limbs (groups of four hex digits, most significant  *)
(* first); the base-36 conversion, the slice and the padding are computed  *)
(* as the code computes them.                                              *)
(***************************************************************************)
Limb == 65536

Sha256Hex(input) ==
  CASE input = "https://example1.com" ->
         <<63533, 43655, 33863, 57639, 13230, 3405, 37685, 24707, 23831, 12120, 10758, 33890, 50409, 14248, 48083, 4625>>
    [] input = "https://example2.com" ->
         <<39596, 12210, 2857, 40287, 22948, 27166, 32296, 16185, 24378, 43339, 32734, 57187, 58466, 58647, 24833, 22263>>

Alphabet36 ==
  <<"0","1","2","3","4","5","6","7","8","9","a","b","c","d","e","f","g","h",
    "i","j","k","l","m","n","o","p","q","r","s","t","u","v","w","x","y","z">>

\* one long division of a base-65536 numeral by 36: <<quotient digits, remainder>>
RECURSIVE DivBy36(_, _, _, _)
DivBy36(ds, i, rem, quo) ==
  IF i > Len(ds) THEN <<quo, rem>>
  ELSE LET cur == rem * Limb + ds[i]
           nxt == Append(quo, cur \div 36)
       IN IF cur >= 0 /\ Len(nxt) = i
          THEN DivBy36(ds, i + 1, cur % 36, nxt)
          ELSE <<nxt, cur>>

IsZero(ds) == \A i \in 1..Len(ds) : ds[i] = 0

\* BigInt.prototype.toString(36): base-36 digits, most significant first
RECURSIVE ToBase36(_, _)
ToBase36(ds, acc) ==
  IF IsZero(ds) THEN (IF acc = <<>> THEN <<0>> ELSE acc)
  ELSE LET qr == DivBy36(ds, 1, 0, <<>>)
           nxt == <<qr[2]>> \o acc
       IN IF Len(nxt) > 0 THEN ToBase36(qr[1], nxt) ELSE nxt

\* String.prototype.slice(0, n)
Slice(ds, n) == SubSeq(ds, 1, IF Len(ds) < n THEN Len(ds) ELSE n)

\* a padStart that pads nothing
PadStartNone(ds, n) == ds

\* String.prototype.padStart(n, "0")
PadStart(ds, n) == [i \in 1..(n - Len(ds)) |-> 0] \o ds

RECURSIVE Join36(_)
Join36(ds) == IF ds = <<>> THEN "" ELSE Alphabet36[Head(ds) + 1] \o Join36(Tail(ds))

KeyLen == 12

\* the digits of the key of a digest: toString(36), slice, padStart
KeyDigits(digest) == PadStart(Slice(ToBase36(digest, <<>>), KeyLen), KeyLen)

hashStringTo12Digits(input) == Join36(KeyDigits(Sha256Hex(input)))

\* Digests to try the conversion on: SHA-256 can return any 256-bit value, so
\* besides the digests of the configured URLs the conversion is applied to
\* digests with one non-zero limb at every position (short numerals that need
\* padding, long ones that need slicing) and to zero.
DigestLimbs == 16

Digest(pos, v, lo) ==
  [i \in 1..DigestLimbs |-> IF i = pos THEN v ELSE IF i = DigestLimbs THEN lo ELSE 0]

SampleDigests ==
  {Sha256Hex(u) : u \in URLS}
    \cup {Digest(pos, v, lo) : pos \in 1..DigestLimbs, v \in {0, 1, Limb - 1}, lo \in {0, 35}}

\* the conversion applied to every sample digest, computed once
SampleKeys ==
  {[digest |-> d, digits |-> KeyDigits(d), key |-> Join36(KeyDigits(d))] : d \in SampleDigests}

\* the keys of the configured URLs, computed once
UrlKey ==
  "https://example1.com" :> hashStringTo12Digits("https://example1.com")
    @@ "https://example2.com" :> hashStringTo12Digits("https://example2.com")

(***************************************************************************)
(* Audit results.  A result is what runLighthouse hands to runAndSave:     *)
(* defined or not, with or without lhr, categories, finalUrl, and the set  *)
(* of categories the report scores.                                        *)
(***************************************************************************)
AllCats == {Categories[j] : j \in 1..Len(Categories)}

Report(lhr, cats, fin, present) ==
  [defined |-> TRUE, lhr |-> lhr, categories |-> cats, finalUrl |-> fin, present |-> present]

FullReport == Report(TRUE, TRUE, TRUE, AllCats)
NoPwaReport == Report(TRUE, TRUE, TRUE, AllCats \ {"pwa"})
NoSeoReport == Report(TRUE, TRUE, TRUE, AllCats \ {"seo"})
NoScoredCategoryReport == Report(TRUE, TRUE, TRUE, {})
NoFinalUrlReport == Report(TRUE, TRUE, FALSE, AllCats)
NoCategoriesReport == Report(TRUE, FALSE, TRUE, {})
NoLhrReport == Report(FALSE, FALSE, FALSE, {})
UndefinedResult ==
  [defined |-> FALSE, lhr |-> FALSE, categories |-> FALSE, finalUrl |-> FALSE, present |-> {}]

Reports ==
  {FullReport, NoPwaReport, NoSeoReport, NoScoredCategoryReport, NoFinalUrlReport,
   NoCategoriesReport, NoLhrReport}

\* scores in hundredths, one per category so that columns cannot be confused
ScoreOf ==
  [c \in AllCats |->
     CASE c = "performance" -> 90 [] c = "accessibility" -> 80
       [] c = "best-practices" -> 70 [] c = "seo" -> 60 [] c = "pwa" -> 50]

\* result.lhr.categories[c]?.score without the ?? "N/A" default
ScoreNoDefault(r, c) == IF c \in r.present THEN ScoreOf[c] ELSE Undefined

\* result.lhr.categories[c]?.score ?? "N/A"
Score(r, c) == IF c \in r.present THEN ScoreOf[c] ELSE NA

\* the structure check of runAndSave: !result.lhr || !result.lhr.categories
InvalidStructure(r) == ~r.lhr \/ ~r.categories

desktopOpts == [formFactor |-> "desktop", device |-> "desktop", output |-> "html"]
mobileOpts == [formFactor |-> "mobile", device |-> "mobile", output |-> "html"]
OptsOf(o) == IF o = "desktop" THEN desktopOpts ELSE mobileOpts

VARIABLES
  variant,    \* which of the two programs of src/index.js runs
  isDev,      \* process.argv includes "--dev"
  urls,       \* process.env.TARGET_URL.split(",")
  nonError,   \* the environment may reject with a value that is no Error object
  down,       \* the configured URLs whose audit always fails
  triggers,   \* how many times the scheduler fires during the run
  now,        \* the clock
  budget,     \* disturbances the environment may still cause
  fired,      \* processLighthouse invocations started by main / the cron callback
  proc,       \* the processLighthouse invocations
  sheet,      \* rows appended to the spreadsheet, in order
  s3,         \* objects put to the bucket
  files,      \* the files under outputs/
  chrome,     \* live chrome instances / lighthouse child processes
  optsPort,   \* the port property of desktopOpts and mobileOpts
  hashInput,  \* a digest handed to the key conversion
  hashCalls   \* the results of the calls of the conversion on hashInput

vars == <<variant, isDev, urls, nonError, down, triggers, now, budget, fired, proc, sheet, s3, files,
          chrome, optsPort, hashInput, hashCalls>>

config == <<variant, isDev, urls, nonError, down, triggers>>

hashing == <<hashInput, hashCalls>>

Batches == 1..MaxBatches

IdleProc ==
  [st |-> "idle", caught |-> FALSE, i |-> 0, opts |-> "desktop", pc |-> "none",
   calls |-> <<>>, url |-> "", startTime |-> 0, urlKey |-> "", result |-> UndefinedResult,
   err |-> FALSE, thrown |-> FALSE, fileName |-> "", filePath |-> "", s3Path |-> "",
   body |-> <<0, 0>>, audit |-> "none", appends |-> 0, appended |-> FALSE,
   uploads |-> 0, puts |-> 0, outcome |-> "none", invalid |-> FALSE]

\* the number of the current task within its batch, and its identity
TaskNo(p) == 2 * p.i + (IF p.opts = "desktop" THEN 1 ELSE 2)
TaskId(b) == <<b, TaskNo(proc[b])>>

(***************************************************************************)
(* The environment: every external call succeeds or fails.  A failure is a *)
(* rejection with an Error object ("error") or, where the environment is   *)
(* allowed to, with a value that has no properties ("nullish").  The       *)
(* engine fails for every URL of `down`; otherwise it fails like any other *)
(* call, and hands back FullReport or, as a disturbance, another result.   *)
(***************************************************************************)
Disturbable == budget > 0

Outcomes ==
  {"ok"} \cup (IF Disturbable
               THEN {"error"} \cup (IF nonError THEN {"nullish"} ELSE {})
               ELSE {})

ErrOutcomes == Outcomes \ {"nullish"}

Fault(o) == budget' = budget - (IF o = "ok" THEN 0 ELSE 1)

EngineOutcomes(url) == IF url \in down THEN {"error"} ELSE Outcomes

EngineFault(url, o, r) ==
  budget' = budget - (IF url \in down \/ (o = "ok" /\ r = FullReport) THEN 0 ELSE 1)

\* lighthouse() may resolve to undefined; the report file of the child
\* process always parses to some value
EngineResults ==
  {FullReport} \cup (IF Disturbable
                     THEN (Reports \ {FullReport})
                            \cup (IF variant = "inproc" THEN {UndefinedResult} ELSE {})
                     ELSE {})

(***************************************************************************)
(* The file system under outputs/.                                         *)
(***************************************************************************)
Exists(path) == \E f \in files : f.path = path
Content(path) == CHOOSE f \in files : f.path = path
writeFile(fs, path, owner, data) ==
  {f \in fs : f.path # path} \cup {[path |-> path, owner |-> owner, data |-> data]}
unlink(fs, path) == {f \in fs : f.path # path}

BucketName == "bucket"

(***************************************************************************)
(* Browser instances and engine child processes.  A handle is alive from   *)
(* launch/exec until kill() resolves or the child exits; a handle whose    *)
(* kill() rejected stays, marked as such.                                  *)
(***************************************************************************)
Handle(id, k) == [task |-> id, kill |-> k]

\* chrome.kill() resolving
kill(c, id) == c \ {Handle(id, "none")}

\* chrome.kill() rejecting: the instance is still there
killRejected(c, id) == (c \ {Handle(id, "none")}) \cup {Handle(id, "rejected")}

\* The runs followed: one trigger and up to MaxFaults disturbances, or
\* several triggers (the batches may overlap) and no other disturbance.
Profiles == {<<1, MaxFaults>>, <<MaxBatches, 0>>}

InitWith(ne, lists, profiles) ==
  /\ variant \in Variants
  /\ isDev \in BOOLEAN
  /\ urls \in lists
  /\ down \in SUBSET {urls[j] : j \in 1..Len(urls)}
  /\ nonError = ne
  /\ \E pr \in profiles : triggers = pr[1] /\ budget = pr[2]
  /\ now = 0
  /\ fired = 0
  /\ proc = [b \in Batches |-> IdleProc]
  /\ sheet = <<>>
  /\ s3 = {}
  /\ files = {}
  /\ chrome = {}
  /\ optsPort = [o \in {"desktop", "mobile"} |-> NoPort]

\* no digest is under conversion besides those of the URLs of the run
NoHashing == hashInput = <<>> /\ hashCalls = <<>>

Init == InitWith(FALSE, UrlLists, Profiles) /\ NoHashing

\* the same program in an environment that may reject with non-Error values
InitDefect == InitWith(TRUE, UrlLists, Profiles) /\ NoHashing

\* one URL, one trigger, and failures in any combination
InitStorm == InitWith(FALSE, [1..1 -> URLS], {<<1, MaxStorm>>}) /\ NoHashing

\* one URL, one trigger, and the key conversion called on a digest of choice
InitHash ==
  /\ InitWith(FALSE, [1..1 -> URLS], {<<1, MaxFaults>>})
  /\ hashInput \in SampleDigests
  /\ hashCalls = <<>>

(***************************************************************************)
(* processLighthouse: the loop over urls, desktop then mobile, inside one  *)
(* try block.                                                              *)
(***************************************************************************)
\* the invocation begins: i = 0, first call is runAndSave(url, desktopOpts)
StartProc == [IdleProc EXCEPT !.st = "run", !.pc = "call"]

\* a loop that runs the desktop profile only
NextTaskDesktopOnly(p) ==
  IF p.i + 1 < Len(urls)
  THEN [p EXCEPT !.i = p.i + 1, !.opts = "desktop", !.pc = "call"]
  ELSE [p EXCEPT !.st = "end", !.pc = "none"]

\* a loop that gives up a URL whose desktop audit failed
NextTaskSkipsAfterFailure(p) ==
  IF p.opts = "desktop" /\ p.audit # "failed"
  THEN [p EXCEPT !.opts = "mobile", !.pc = "call"]
  ELSE IF p.i + 1 < Len(urls)
       THEN [p EXCEPT !.i = p.i + 1, !.opts = "desktop", !.pc = "call"]
       ELSE [p EXCEPT !.st = "end", !.pc = "none"]

\* what follows an await of runAndSave that returned
NextTask(p) ==
  IF p.opts = "desktop"
  THEN [p EXCEPT !.opts = "mobile", !.pc = "call"]
  ELSE IF p.i + 1 < Len(urls)
       THEN [p EXCEPT !.i = p.i + 1, !.opts = "desktop", !.pc = "call"]
       ELSE [p EXCEPT !.st = "end", !.pc = "none"]

\* runAndSave returns normally to processLighthouse
Return(p) == NextTask([p EXCEPT !.outcome = "returned"])

\* runAndSave throws: the catch around the loop logs and the invocation ends
Throw(p) == [p EXCEPT !.outcome = "threw", !.st = "end", !.pc = "none", !.caught = TRUE]

\* the end of runAndSave after its finally block
Finish(p) == IF p.thrown THEN Throw(p) ELSE Return(p)

\* a runLighthouse without its finally block: the rejection of lighthouse()
\* goes straight to the caller
LighthouseRejectedNoFinally(p) == Return([p EXCEPT !.audit = "failed", !.err = TRUE])

\* runLighthouse's catch logs and throws again, which runs the finally block
\* (chrome.kill) before the rejection reaches the caller
LighthouseRejected(p) == [p EXCEPT !.pc = "kill", !.err = TRUE]

\* a catch around runLighthouse that throws the error again
AuditFailedRethrows(p) == Throw([p EXCEPT !.audit = "failed"])

\* runAndSave's catch around runLighthouse: log, then return
AuditFailed(p) == Return([p EXCEPT !.audit = "failed"])

(***************************************************************************)
(* main                                                                    *)
(***************************************************************************)
MainDev ==
  /\ isDev /\ fired = 0
  /\ fired' = 1
  /\ proc' = [proc EXCEPT ![1] = StartProc]
  /\ UNCHANGED <<config, hashing, now, budget, sheet, s3, files, chrome, optsPort>>

\* the cron callback: fire and forget, whatever earlier invocations are doing
CronFire ==
  /\ ~isDev
  /\ fired < triggers
  /\ fired' = fired + 1
  /\ proc' = [proc EXCEPT ![fired + 1] = StartProc]
  /\ UNCHANGED <<config, hashing, now, budget, sheet, s3, files, chrome, optsPort>>

\* The clock advances.  The program reads it when runAndSave starts
\* (startTime) and when the date prefix of the storage path is taken, so time
\* is let pass right before those readings: a tick anywhere else cannot be
\* told from one delayed to the next reading.
ClockReadPcs == {"call", "append", "readReport"}

Tick ==
  /\ now < MaxTime
  /\ Disturbable
  /\ \E b \in Batches : proc[b].st = "run" /\ proc[b].pc \in ClockReadPcs
  /\ now' = now + 1
  /\ budget' = budget - 1
  /\ UNCHANGED <<config, hashing, fired, proc, sheet, s3, files, chrome, optsPort>>

(***************************************************************************)
(* Names derived by runAndSave.                                            *)
(***************************************************************************)
DeviceName(p) ==
  IF variant = "inproc" THEN OptsOf(p.opts).formFactor ELSE OptsOf(p.opts).device

FileName(p) ==
  toISOString(p.startTime) \o "-" \o p.urlKey \o "-lighthouse-report-" \o DeviceName(p) \o ".html"

\* path.join("outputs", name)
OutputsPath(name) == "outputs/" \o name

\* the local HTML file: the display name (inproc) or <ms>.report.html (subproc)
FilePath(p) ==
  IF variant = "inproc" THEN OutputsPath(FileName(p))
  ELSE OutputsPath(getTime(p.startTime) \o ".report.html")

JsonFilePath(p) == OutputsPath(getTime(p.startTime) \o ".report.json")

\* <datePrefix>/<key>, the date being that of the moment of the call
S3Path(t, key) == format(t) \o "/" \o key

Link(p) == HOST \o "/" \o p.s3Path

(***************************************************************************)
(* saveToGoogleSheets: the data object built by runAndSave and the row     *)
(* built from it.                                                          *)
(***************************************************************************)
SheetData(p) ==
  [lhr |-> [finalUrl |-> IF p.result.finalUrl THEN p.url ELSE Undefined,
            categories |-> [c \in AllCats |-> [score |-> Score(p.result, c)]],
            userAgent |-> UserAgent],
   device |-> DeviceName(p),
   date |-> toISOString(p.startTime),
   urlKey |-> p.urlKey,
   link |-> IF variant = "inproc" THEN Undefined ELSE Link(p)]

RowScores(data) == [j \in 1..Len(Categories) |-> data.lhr.categories[Categories[j]].score]

Values(data) ==
  <<data.date, data.device, data.urlKey, data.lhr.finalUrl>>
    \o RowScores(data)
    \o (IF variant = "inproc" THEN <<data.lhr.userAgent>>
        ELSE <<data.lhr.userAgent, data.link>>)

(***************************************************************************)
(* runAndSave, one action per await.                                       *)
(***************************************************************************)
Upd(b, r) == proc' = [proc EXCEPT ![b] = r]

At(b, pc) == proc[b].st = "run" /\ proc[b].pc = pc

\* where the catch of the save/upload block leads: the finally block
FinallyPc == IF variant = "inproc" THEN "unlink" ELSE "finally"

\* a catch of the save/upload block that throws the error again
CatchSaveRethrows(p, o) ==
  [p EXCEPT !.pc = IF variant = "inproc" THEN "unlink" ELSE "finally", !.thrown = TRUE]

\* the catch of the save/upload block: logger.error(... error.message), which
\* itself throws when the value caught has no properties; then the finally
\* block either way
CatchSave(p, o) == [p EXCEPT !.pc = FinallyPc, !.thrown = (o = "nullish")]

\* an uploadToS3 that takes the day of its key from the task's start time
AfterSaveDayOfStart(p) ==
  IF variant = "inproc"
  THEN [p EXCEPT !.pc = "readFile", !.uploads = p.uploads + 1,
                 !.s3Path = S3Path(p.startTime, p.fileName)]
  ELSE [p EXCEPT !.pc = "finally"]

\* runAndSave once saveToGoogleSheets has returned: inproc calls uploadToS3,
\* which derives its key from the date of the call; subproc has the call
\* commented out and falls through to the finally block
AfterSave(p) ==
  IF variant = "inproc"
  THEN [p EXCEPT !.pc = "readFile", !.uploads = p.uploads + 1,
                 !.s3Path = S3Path(now, p.fileName)]
  ELSE [p EXCEPT !.pc = "finally"]

\* the structure check throws "Invalid Lighthouse result structure", which
\* the block's catch logs
StructureRejected(p) == CatchSave([p EXCEPT !.invalid = TRUE], "error")

\* the engine call that follows ensureDirectoryExists
AuditPc == IF variant = "inproc" THEN "launch" ELSE "exec"

\* startTime, urlKey, then await ensureDirectoryExists("outputs"), then the
\* call of runLighthouse
RunAndSaveBegin(b) ==
  /\ At(b, "call")
  /\ \E o \in Outcomes :
       LET p == proc[b]
           url == urls[p.i + 1]
           q == [p EXCEPT !.url = url, !.startTime = now, !.urlKey = UrlKey[url],
                          !.result = UndefinedResult, !.err = FALSE, !.thrown = FALSE,
                          !.fileName = "", !.filePath = "", !.s3Path = "",
                          !.body = <<0, 0>>, !.audit = "none", !.appends = 0,
                          !.appended = FALSE, !.uploads = 0, !.puts = 0,
                          !.outcome = "running", !.invalid = FALSE]
       IN /\ Fault(o)
          /\ IF o = "nullish"
             THEN Upd(b, Throw(q))
             ELSE Upd(b, [q EXCEPT !.pc = AuditPc, !.audit = "started",
                                   !.calls = Append(p.calls, <<url, DeviceName(p)>>)])
  /\ UNCHANGED <<config, hashing, now, fired, sheet, s3, files, chrome, optsPort>>

\* inproc runLighthouse: await launch(...); opts.port = chrome.port
Launch(b) ==
  /\ At(b, "launch")
  /\ \E o \in Outcomes :
       LET p == proc[b] IN
       /\ Fault(o)
       /\ CASE o = "ok" ->
                 \E port \in ChromePorts :
                   /\ chrome' = chrome \cup {Handle(TaskId(b), "none")}
                   /\ optsPort' = [optsPort EXCEPT ![p.opts] = port]
                   /\ Upd(b, [p EXCEPT !.pc = "lighthouse"])
            [] o = "error" ->
                 /\ Upd(b, AuditFailed(p))
                 /\ UNCHANGED <<chrome, optsPort>>
            [] o = "nullish" ->
                 /\ Upd(b, Throw([p EXCEPT !.audit = "failed"]))
                 /\ UNCHANGED <<chrome, optsPort>>
  /\ UNCHANGED <<config, hashing, now, fired, sheet, s3, files>>

\* inproc runLighthouse: await lighthouse(url, opts, config)
Lighthouse(b) ==
  /\ At(b, "lighthouse")
  /\ \E o \in EngineOutcomes(proc[b].url) :
       LET p == proc[b] IN
       IF o = "ok"
       THEN \E r \in EngineResults :
              /\ EngineFault(p.url, o, r)
              /\ Upd(b, [p EXCEPT !.pc = "kill", !.result = r])
       ELSE /\ EngineFault(p.url, o, UndefinedResult)
            /\ Upd(b, LighthouseRejected(p))
  /\ UNCHANGED <<config, hashing, now, fired, sheet, s3, files, chrome, optsPort>>

\* inproc runLighthouse: finally { await chrome.kill() }, then runAndSave's
\* catch or the continuation after the audit
Kill(b) ==
  /\ At(b, "kill")
  /\ \E o \in Outcomes :
       LET p == proc[b] IN
       /\ Fault(o)
       /\ CASE o = "ok" ->
                 /\ chrome' = kill(chrome, TaskId(b))
                 /\ IF p.err
                    THEN Upd(b, AuditFailed(p))
                    ELSE Upd(b, [p EXCEPT !.pc = "write", !.audit = "ok",
                                          !.fileName = FileName(p),
                                          !.filePath = FilePath(p)])
            [] o = "error" ->
                 /\ Upd(b, AuditFailed(p))
                 /\ chrome' = killRejected(chrome, TaskId(b))
            [] o = "nullish" ->
                 /\ Upd(b, Throw([p EXCEPT !.audit = "failed"]))
                 /\ chrome' = killRejected(chrome, TaskId(b))
  /\ UNCHANGED <<config, hashing, now, fired, sheet, s3, files, optsPort>>

\* inproc: await fs.writeFile(filePath, result.report), the structure check
\* and the call of saveToGoogleSheets
WriteFile(b) ==
  /\ At(b, "write")
  /\ LET p == proc[b] IN
     IF ~p.result.defined
     THEN \* result.report throws a TypeError, caught by the block's catch
          /\ Upd(b, CatchSave(p, "error"))
          /\ UNCHANGED <<budget, files>>
     ELSE \E o \in Outcomes :
            /\ Fault(o)
            /\ CASE o = "ok" ->
                      /\ files' = writeFile(files, p.filePath, TaskId(b), "html")
                      /\ Upd(b, IF InvalidStructure(p.result)
                                THEN StructureRejected(p)
                                ELSE [p EXCEPT !.pc = "getClient"])
                 [] OTHER ->
                      /\ Upd(b, CatchSave(p, o))
                      /\ UNCHANGED files
  /\ UNCHANGED <<config, hashing, now, fired, sheet, s3, chrome, optsPort>>

\* subproc runLighthouse: exec(command, callback)
ExecStart(b) ==
  /\ At(b, "exec")
  /\ chrome' = chrome \cup {Handle(TaskId(b), "none")}
  /\ Upd(b, [proc[b] EXCEPT !.pc = "execDone"])
  /\ UNCHANGED <<config, hashing, now, budget, fired, sheet, s3, files, optsPort>>

\* subproc: the child process ends and the exec callback starts; on success
\* the engine has written <id>.report.html and <id>.report.json
ExecDone(b) ==
  /\ At(b, "execDone")
  /\ chrome' = chrome \ {Handle(TaskId(b), "none")}
  /\ \E o \in EngineOutcomes(proc[b].url) \ {"nullish"} :
       LET p == proc[b] IN
       IF o = "ok"
       THEN \E r \in EngineResults :
              /\ EngineFault(p.url, o, r)
              /\ files' = writeFile(writeFile(files, FilePath(p), TaskId(b), "html"),
                                    JsonFilePath(p), TaskId(b), r)
              /\ Upd(b, [p EXCEPT !.pc = "readReport"])
       ELSE /\ EngineFault(p.url, o, UndefinedResult)
            /\ Upd(b, AuditFailed(p))
            /\ UNCHANGED files
  /\ UNCHANGED <<config, hashing, now, fired, sheet, s3, optsPort>>

\* subproc: await fs.readFile(<id>.report.json) and JSON.parse inside the exec
\* callback; a failure there rejects the callback's own promise, and the
\* promise runLighthouse returned is never settled.  On success runAndSave
\* derives its names and runs the structure check.
ReadReport(b) ==
  /\ At(b, "readReport")
  /\ LET p == proc[b] IN
     IF ~Exists(JsonFilePath(p))
     THEN /\ Upd(b, [p EXCEPT !.pc = "hung", !.outcome = "hung"])
          /\ UNCHANGED budget
     ELSE \E o \in ErrOutcomes :
            /\ Fault(o)
            /\ IF o = "ok"
               THEN LET r == Content(JsonFilePath(p)).data
                        q == [p EXCEPT !.result = r, !.audit = "ok",
                                       !.fileName = FileName(p),
                                       !.filePath = FilePath(p),
                                       !.s3Path = S3Path(now, FileName(p))]
                    IN Upd(b, IF InvalidStructure(r)
                              THEN StructureRejected(q)
                              ELSE [q EXCEPT !.pc = "getClient"])
               ELSE Upd(b, [p EXCEPT !.pc = "hung", !.outcome = "hung"])
  /\ UNCHANGED <<config, hashing, now, fired, sheet, s3, files, chrome, optsPort>>

\* saveToGoogleSheets: await auth.getClient(), outside its try block
GetClient(b) ==
  /\ At(b, "getClient")
  /\ \E o \in Outcomes :
       LET p == proc[b] IN
       /\ Fault(o)
       /\ IF o = "ok"
          THEN Upd(b, [p EXCEPT !.pc = "append"])
          ELSE Upd(b, CatchSave(p, o))
  /\ UNCHANGED <<config, hashing, now, fired, sheet, s3, files, chrome, optsPort>>

\* saveToGoogleSheets: await sheets.spreadsheets.values.append(...); a failure
\* is logged and thrown again as an Error, whatever was caught
AppendRow(b) ==
  /\ At(b, "append")
  /\ \E o \in Outcomes :
       LET p == proc[b]
           q == [p EXCEPT !.appends = p.appends + 1]
       IN /\ Fault(o)
          /\ IF o = "ok"
             THEN /\ sheet' = Append(sheet, Values(SheetData(p)))
                  /\ Upd(b, AfterSave([q EXCEPT !.appended = TRUE]))
             ELSE /\ UNCHANGED sheet
                  /\ Upd(b, CatchSave(q, "error"))
  /\ UNCHANGED <<config, hashing, now, fired, s3, files, chrome, optsPort>>

\* inproc uploadToS3: await fs.readFile(filePath), outside its try block
ReadFile(b) ==
  /\ At(b, "readFile")
  /\ LET p == proc[b] IN
     IF ~Exists(p.filePath)
     THEN /\ Upd(b, CatchSave(p, "error"))
          /\ UNCHANGED budget
     ELSE \E o \in Outcomes :
            /\ Fault(o)
            /\ IF o = "ok"
               THEN Upd(b, [p EXCEPT !.pc = "send", !.body = Content(p.filePath).owner])
               ELSE Upd(b, CatchSave(p, o))
  /\ UNCHANGED <<config, hashing, now, fired, sheet, s3, files, chrome, optsPort>>

\* inproc uploadToS3: await s3Client.send(command); a failure is logged and
\* thrown again
Send(b) ==
  /\ At(b, "send")
  /\ \E o \in Outcomes :
       LET p == proc[b]
           q == [p EXCEPT !.puts = p.puts + 1]
       IN /\ Fault(o)
          /\ Upd(b, IF o = "ok" THEN [q EXCEPT !.pc = "unlink"] ELSE CatchSave(q, "error"))
          /\ IF o = "ok"
             THEN s3' = s3 \cup {[Bucket |-> BucketName, Key |-> p.s3Path,
                                  Body |-> p.body, ContentType |-> "text/html"]}
             ELSE UNCHANGED s3
  /\ UNCHANGED <<config, hashing, now, fired, sheet, files, chrome, optsPort>>

\* inproc finally: await fs.unlink(filePath) in its own try block, then the
\* end of runAndSave
Unlink(b) ==
  /\ At(b, "unlink")
  /\ LET p == proc[b] IN
     IF ~Exists(p.filePath)
     THEN /\ Upd(b, Finish(p))
          /\ UNCHANGED <<budget, files>>
     ELSE \E o \in Outcomes :
            /\ Fault(o)
            /\ CASE o = "ok" ->
                      /\ files' = unlink(files, p.filePath)
                      /\ Upd(b, Finish(p))
                 [] o = "error" ->
                      /\ UNCHANGED files
                      /\ Upd(b, Finish(p))
                 [] o = "nullish" ->
                      /\ UNCHANGED files
                      /\ Upd(b, Throw(p))
  /\ UNCHANGED <<config, hashing, now, fired, sheet, s3, chrome, optsPort>>

\* subproc finally: both unlink calls are commented out; only the log line
\* remains, then the end of runAndSave
Finally(b) ==
  /\ At(b, "finally")
  /\ Upd(b, Finish(proc[b]))
  /\ UNCHANGED <<config, hashing, now, budget, fired, sheet, s3, files, chrome, optsPort>>

\* the continuations of processLighthouse invocation b on the event loop
TaskStep(b) ==
  \/ RunAndSaveBegin(b)
  \/ Launch(b)
  \/ Lighthouse(b)
  \/ Kill(b)
  \/ WriteFile(b)
  \/ ExecStart(b)
  \/ ExecDone(b)
  \/ ReadReport(b)
  \/ GetClient(b)
  \/ AppendRow(b)
  \/ ReadFile(b)
  \/ Send(b)
  \/ Unlink(b)
  \/ Finally(b)

Next ==
  \/ MainDev
  \/ CronFire
  \/ Tick
  \/ \E b \in Batches : TaskStep(b)

\* a call of the key conversion on the digest of choice
HashCall ==
  /\ hashInput # <<>>
  /\ Len(hashCalls) < MaxCalls
  /\ \E e \in SampleKeys :
       /\ e.digest = hashInput
       /\ hashCalls' = Append(hashCalls, [digits |-> e.digits, key |-> e.key])
  /\ UNCHANGED <<config, hashInput, now, budget, fired, proc, sheet, s3, files, chrome, optsPort>>

NextHash == Next \/ HashCall

Spec == Init /\ [][Next]_vars

SpecHash == InitHash /\ [][NextHash]_vars

\* one URL; every external call is eventually answered, so every continuation
\* that is ready eventually runs
InitLive == InitWith(FALSE, [1..1 -> URLS], Profiles) /\ NoHashing

SpecLive == InitLive /\ [][Next]_vars /\ \A b \in Batches : WF_vars(TaskStep(b))

SpecDefect == InitDefect /\ [][Next]_vars

SpecStorm == InitStorm /\ [][Next]_vars

(***************************************************************************)
(* Properties.                                                             *)
(***************************************************************************)
LastTask == 2 * Len(urls)

\* the task a batch has just finished is the last one it invoked the audit for
Ended(p) == p.outcome \in {"returned", "threw"}

\* after a normal return the loop is at the call of the following task, or
\* past the last one
WentOn(p) ==
  IF Len(p.calls) < LastTask
  THEN p.st = "run" /\ p.pc = "call" /\ TaskNo(p) = Len(p.calls) + 1
  ELSE p.st = "end" /\ ~p.caught

\* C1: a task whose audit failed has called neither sink (no append, no
\* uploadToS3, no put), its runAndSave has returned normally, and
\* processLighthouse stands at the call of the next task of the sequence (or,
\* after the last task, has ended without catching anything).
C1_FailedAuditIsContained ==
  \A b \in Batches :
    LET p == proc[b] IN
    p.audit = "failed" =>
      /\ p.appends = 0 /\ ~p.appended /\ p.uploads = 0 /\ p.puts = 0
      /\ p.outcome = "returned"
      /\ WentOn(p)

C1_Witness ==
  \E b \in Batches :
    /\ proc[b].audit = "failed" /\ proc[b].outcome = "returned"
    /\ proc[b].st = "run" /\ proc[b].pc = "call" /\ proc[b].opts = "mobile"

\* C2: a task that returned after a failed append (audit succeeded, report
\* valid, the append was attempted and failed) has called uploadToS3.
C2_UploadAttemptedAfterFailedAppend ==
  \A b \in Batches :
    LET p == proc[b] IN
    (/\ Ended(p) /\ p.audit = "ok" /\ ~InvalidStructure(p.result)
     /\ p.appends = 1 /\ ~p.appended)
      => p.uploads = 1

\* C3: a row is appended only for a report that has both categories and a
\* final URL, so every row of the sheet carries a final URL.
C3_RowsOnlyForReportsWithFinalUrl ==
  /\ \A b \in Batches :
       proc[b].appended => (proc[b].result.categories /\ proc[b].result.finalUrl)
  /\ \A j \in 1..Len(sheet) : sheet[j][4] # Undefined

\* C4: once runAndSave has finished for a task, no file written under outputs/
\* during that task is left.
C4_NoWorkingFileRemains ==
  \A b \in Batches :
    Ended(proc[b]) => ~\E f \in files : f.owner = <<b, Len(proc[b].calls)>>

\* C5: a processLighthouse invocation that has ended has invoked runAndSave for
\* every task of the sequence, the last one included, also when an earlier
\* runAndSave threw.
C5_BatchSurvivesThrow ==
  \A b \in Batches :
    proc[b].st = "end" => TaskNo(proc[b]) = LastTask

\* C6 scenario: the README's URL list, the engine failing for example2.com
\* only, one batch, and no other disturbance
ReadmeUrls == <<"https://example1.com", "https://example2.com">>

C6_Scenario ==
  /\ urls = ReadmeUrls
  /\ down = {"https://example2.com"}
  /\ triggers = 1 /\ budget = MaxFaults

\* the row of values appended for (url, device) by a task started at instant t
IsRowFor(row, url, device) ==
  /\ row[2] = device
  /\ row[3] = UrlKey[url]
  /\ row[4] = url

\* C6 (amended): in that scenario the finished batch has appended exactly two
\* rows, the desktop and the mobile row of example1.com, has invoked all four
\* audits, and has not thrown.
C6_TwoRowsForExample1 ==
  C6_Scenario =>
    /\ Len(sheet) <= 2
    /\ \A j \in 1..Len(sheet) : sheet[j][4] = "https://example1.com"
    /\ proc[1].st = "end" =>
         /\ Len(sheet) = 2
         /\ IsRowFor(sheet[1], "https://example1.com", "desktop")
         /\ IsRowFor(sheet[2], "https://example1.com", "mobile")
         /\ Len(proc[1].calls) = 4
         /\ ~proc[1].caught

C6_Witness ==
  C6_Scenario /\ proc[1].st = "end" /\ Len(sheet) = 2

\* C6 as claimed: in that scenario the finished batch has appended exactly one
\* row, for example1.com, and has not thrown.
C6_ExactlyOneRow ==
  (C6_Scenario /\ proc[1].st = "end") =>
    /\ Len(sheet) = 1
    /\ sheet[1][4] = "https://example1.com"
    /\ ~proc[1].caught

TaskSequence ==
  [k \in 1..LastTask |-> <<urls[(k + 1) \div 2], Devices[2 - (k % 2)]>>]

\* C8: the audits a batch has invoked so far are a prefix of the task
\* sequence, and a batch that ended without a throw has invoked all of it.
C8_AuditOrder ==
  \A b \in Batches :
    LET c == proc[b].calls IN
    /\ Len(c) <= LastTask
    /\ c = SubSeq(TaskSequence, 1, Len(c))
    /\ (proc[b].st = "end" /\ ~proc[b].caught) => c = TaskSequence

\* a finished batch over two different URLs whose first URL's audits failed
C8_Witness ==
  \E b \in Batches :
    /\ proc[b].st = "end" /\ Len(proc[b].calls) = 4
    /\ Len(urls) = 2 /\ urls[1] # urls[2] /\ down = {urls[1]}

InAudit(b) ==
  proc[b].st = "run"
    /\ proc[b].pc \in {"launch", "lighthouse", "kill", "exec", "execDone", "readReport"}

InPublish(b) ==
  proc[b].st = "run"
    /\ proc[b].pc \in {"write", "getClient", "append", "readFile", "send", "unlink", "finally"}

\* C9: at every moment at most one audit is in progress and at most one task
\* is in its publish phase.
C9_OneTaskAtATime ==
  /\ Cardinality({b \in Batches : InAudit(b)}) <= 1
  /\ Cardinality({b \in Batches : InPublish(b)}) <= 1

\* C10: at most one processLighthouse invocation is in progress at any time.
C10_OneBatchAtATime ==
  \A b1, b2 \in Batches :
    (proc[b1].st = "run" /\ proc[b2].st = "run") => b1 = b2

\* the task of batch b numbered k is inside its runLighthouse call
InRunLighthouse(b, k) ==
  /\ proc[b].st = "run" /\ TaskNo(proc[b]) = k
  /\ proc[b].pc \in {"lighthouse", "kill", "execDone"}

C12_ProfilesUnchanged ==
  \A o \in DOMAIN optsPort : optsPort[o] = NoPort

\* the score columns a row must carry for a report
ExpectedScores(r) ==
  [j \in 1..Len(Categories) |->
     IF Categories[j] \in r.present THEN ScoreOf[Categories[j]] ELSE "N/A"]

\* batch b appends the row of its current task in this step
Appends(b) == At(b, "append") /\ proc'[b].appended

\* C13: the structure check rejects a report only when lhr or categories is
\* missing, never because one of the five categories is; and the row appended
\* for a report is the sheet's new last row, whose five score columns hold the
\* score of every category present and "N/A" for every category absent.
C13_MissingCategoryIsNA ==
  /\ [](\A b \in Batches : proc[b].invalid => InvalidStructure(proc[b].result))
  /\ [][\A b \in Batches :
          Appends(b) =>
            /\ Len(sheet') = Len(sheet) + 1
            /\ SubSeq(sheet'[Len(sheet')], 5, 9) = ExpectedScores(proc[b].result)]_vars

\* a row was appended for a report without the pwa category, and the task
\* has returned
C13_Witness ==
  \E b \in Batches :
    /\ proc[b].result = NoPwaReport /\ proc[b].appended
    /\ proc[b].outcome = "returned"
    /\ sheet[Len(sheet)][9] = "N/A" /\ sheet[Len(sheet)][5] = 90

\* C14: every row appended to the sheet is a list of exactly 11 values in the
\* order date, device, urlKey, finalUrl, the five scores (columns 5 to 9),
\* userAgent, artifactLink.
C14_RowsHaveElevenColumns ==
  \A j \in 1..Len(sheet) :
    LET row == sheet[j] IN
    /\ Len(row) = 11
    /\ row[1] \in {toISOString(t) : t \in Times}
    /\ row[2] \in {Devices[k] : k \in 1..Len(Devices)}
    /\ row[3] \in {UrlKey[u] : u \in URLS}
    /\ row[4] \in URLS \cup {Undefined}
    /\ row[10] = UserAgent
    /\ \E t \in Times, k \in 1..Len(Devices) :
         row[11] = HOST \o "/" \o format(t) \o "/" \o row[1] \o "-" \o row[3]
                     \o "-lighthouse-report-" \o Devices[k] \o ".html"

\* C15: the key is a function of the URL alone, 12 characters of [0-9a-z].
\* Every call of the conversion yields 12 base-36 digits, spelled with the
\* characters 0-9a-z, and the same ones as the first call; the key a task
\* holds is the key of its URL, and any two rows of the sheet for the same
\* URL, desktop or mobile, carry the same key.
C15_KeyIsFunctionOfUrl ==
  /\ \A k \in 1..Len(hashCalls) :
       /\ Len(hashCalls[k].digits) = 12
       /\ \A i \in 1..12 : hashCalls[k].digits[i] \in 0..35
       /\ hashCalls[k].key = Join36(hashCalls[k].digits)
       /\ Len(hashCalls[k].key) = 12
       /\ hashCalls[k] = hashCalls[1]
  /\ \A u \in URLS : Len(UrlKey[u]) = 12
  /\ \A b \in Batches :
       proc[b].url # "" => proc[b].urlKey = UrlKey[proc[b].url]
  /\ \A j, k \in 1..Len(sheet) :
       /\ Len(sheet[j][3]) = 12
       /\ sheet[j][4] \in URLS => sheet[j][3] = UrlKey[sheet[j][4]]
       /\ sheet[j][4] = sheet[k][4] => sheet[j][3] = sheet[k][3]

\* the conversion was called twice on a digest whose numeral needs padding,
\* and the batch has written the desktop and the mobile row of its URL
C15_Witness ==
  /\ Len(hashCalls) = MaxCalls
  /\ hashCalls[1].digits[1] = 0 /\ hashCalls[1].digits[12] # 0
  /\ Len(sheet) = 2 /\ sheet[1][2] = "desktop" /\ sheet[2][2] = "mobile"

\* the storage path of an artifact archived on the day of instant t for a task
\* started at instant t0
StoragePath(t, t0, key, device) ==
  format(t) \o "/" \o toISOString(t0) \o "-" \o key \o "-lighthouse-report-" \o device \o ".html"

\* batch b invokes the archival of its current task in this step
InvokesUpload(b) == proc'[b].uploads = proc[b].uploads + 1

\* batch b sends the put of its current task's artifact in this step
Puts(b) == proc'[b].puts = proc[b].puts + 1

C17_OneAppendThenOnePut ==
  \A b \in Batches :
    LET p == proc[b] IN
    (/\ p.audit = "ok" /\ p.result.defined /\ ~InvalidStructure(p.result)
     /\ (Ended(p) \/ (p.st = "run" /\ p.pc \in {"unlink", "finally"})))
      => (p.appends = 1 /\ p.puts = 1)

\* C18: every processLighthouse invocation that has started eventually reaches
\* the end of its task sequence, every external call being answered sooner or
\* later with a success or a failure.
C18_EveryBatchCompletes ==
  \A b \in Batches : (proc[b].st = "run") ~> (proc[b].st = "end")

\* batch b is inside a task, between the start of its audit and the end of its
\* cleanup
InTask(b) == InAudit(b) \/ InPublish(b)

\* the working path of the current task of batch b
WorkingPath(b) ==
  IF variant = "inproc" THEN FilePath(proc[b]) ELSE JsonFilePath(proc[b])

\* C19: two task executions in progress never have the same working path, and
\* the file a task is about to read, upload or delete is the one its own audit
\* produced.
C19_WorkingPathsUnique ==
  /\ \A b1, b2 \in Batches :
       (b1 # b2 /\ InTask(b1) /\ InTask(b2)) => WorkingPath(b1) # WorkingPath(b2)
  /\ \A b \in Batches :
       /\ (At(b, "readReport") \/ At(b, "readFile") \/ At(b, "unlink"))
            => \A f \in files : f.path = WorkingPath(b) => f.owner = TaskId(b)
       /\ At(b, "send") => proc[b].body = TaskId(b)

====
